---- MODULE Spec2Model ----
(***************************************************************************)
(* Model of the MangaDex client of mangadex_anilist_sync                   *)
(* (src/app/mangadex.py): the OAuth2 token lifecycle of MangaDexClient     *)
(* (_ensure_valid_token, _refresh_token, _authorize, _save_tokens) and the *)
(* progress aggregation (get_followed_manga, get_read_chapters,            *)
(* get_reading_progress).                                                  *)
(*                                                                         *)
(* Time is counted in whole seconds.  Python strings that the code orders  *)
(* or converts (chapter identifiers, the persisted expiry) are sequences   *)
(* of one-character strings; opaque strings (tokens, ids, titles) are TLA+ *)
(* strings.  An HTTP request answers with a 2xx status and a JSON body, or *)
(* with an error status, on which raise_for_status() raises HTTPError.     *)
(***************************************************************************)
EXTENDS Integers, Sequences, FiniteSets, TLC

VARIABLES
    mem,        \* self.access_token, self.refresh_token, self.token_expiry
    environ,    \* os.environ restricted to the three MD_* token keys
    envfile,    \* the ../.env file restricted to the same keys
    now,        \* time.time()
    pc,         \* "new": not constructed, "ready": between public calls,
                \* "loop": inside the for loop of get_reading_progress,
                \* "dead": __init__ raised
    followed,   \* followed_manga of the running get_reading_progress
    idx,        \* 1-based position of the loop in followed
    progress,   \* the progress dict of the running get_reading_progress
    ret,        \* what the last finished public call gave its caller
    outcomes,   \* per processed item of followed: what its fetch yielded
    last,       \* record of the last step: requests issued, exceptions
    requests,   \* data requests of the running or last public call, in order
    exit        \* how main() of sync.py stands: running, returned or raised

vars == <<mem, environ, envfile, now, pc, followed, idx, progress, ret, outcomes,
          last, requests, exit>>

----------------------------------------------------------------------------
(* Bounds of the model *)

MaxNow == 60        \* the clock stops advancing here
MaxItems == 2       \* longest followed list
MaxChapters == 2    \* longest read-chapter list

(* Program constant: the safety buffer of _ensure_valid_token *)
Buffer == 60

----------------------------------------------------------------------------
(* Python values *)

None == "None"                      \* None, for opaque strings
NoExpiry == -1                      \* token_expiry holding None (or "")

Truthy(s) == s \notin {None, ""}    \* bool(s) of an optional string

AT == "MD_ACCESS_TOKEN"
RT == "MD_REFRESH_TOKEN"
EXP == "MD_TOKEN_EXPIRY"

\* Characters in code-point order: str comparison compares code points.
Chars == <<".", "0", "1", "2", "3", "4", "5", "6", "7", "8", "9", "E", "o", "r">>
Ord(c) == CHOOSE i \in 1..Len(Chars) : Chars[i] = c

DigitChar(d) == Chars[d + 2]
DigitVal(c) == Ord(c) - 2

RECURSIVE Digits(_)
Digits(n) == IF n < 10 THEN <<DigitChar(n)>>
             ELSE Append(Digits(n \div 10), DigitChar(n % 10))

\* str(x) of a float holding a whole number of seconds: "90.0"
Str(x) == Digits(x) \o <<".", "0">>

RECURSIVE ParseInt(_, _)
ParseInt(s, acc) ==
    IF s = <<>> \/ Head(s) = "." THEN acc
    ELSE ParseInt(Tail(s), 10 * acc + DigitVal(Head(s)))

\* float(s) of a decimal string with a zero fraction ("90", "90.0")
Float(s) == ParseInt(s, 0)

\* a < b for Python strings
RECURSIVE StrLess(_, _)
StrLess(a, b) ==
    IF b = <<>> THEN FALSE
    ELSE IF a = <<>> THEN TRUE
    ELSE IF Head(a) = Head(b) THEN StrLess(Tail(a), Tail(b))
    ELSE Ord(Head(a)) < Ord(Head(b))

----------------------------------------------------------------------------
(* The token endpoint and the settings store *)

TTLs == {30, 60, 90}                \* expires_in values the server reports
Delays == {0, 30}                   \* seconds a token-endpoint call takes

\* Token data of a 2xx answer of the token endpoint.
TokenData == {[access_token |-> "a1", refresh_token |-> "r1", expires_in |-> ttl] : ttl \in TTLs}

NoData == [access_token |-> None, refresh_token |-> None, expires_in |-> 0]

\* Answers of the token endpoint: an error status, or 2xx with token data.
Responses == {[ok |-> FALSE, json |-> NoData]}
        \cup {[ok |-> TRUE, json |-> td] : td \in TokenData}

Getenv(env, key) == IF key \in DOMAIN env THEN env[key] ELSE None

SetKey(store, key, value) ==
    [k \in DOMAIN store \cup {key} |-> IF k = key THEN value ELSE store[k]]

\* A request: its kind ("refresh", "password", "follows", "read"), the manga
\* id of a read request, whether it was answered 2xx.
Ev(kind, arg, ok) == [kind |-> kind, arg |-> arg, ok |-> ok]

\* A client with its stores, the requests issued so far in the running
\* call, and the exception in flight ("none" when there is none).
World(m, env, file, calls, exc) ==
    [mem |-> m, environ |-> env, envfile |-> file, calls |-> calls, exc |-> exc]

\* Mutant: the lifetime expires_in is persisted in place of the expiry time.
SaveTokens_PersistTtl(W, td, t, w) ==
    LET m1 == [access_token |-> td.access_token,
               refresh_token |-> td.refresh_token,
               token_expiry |-> t + td.expires_in]
        e1 == SetKey(W.environ, AT, m1.access_token)
        e2 == SetKey(e1, RT, m1.refresh_token)
        e3 == SetKey(e2, EXP, Str(td.expires_in))
        f1 == IF w = 1 THEN W.envfile ELSE SetKey(W.envfile, AT, m1.access_token)
        f2 == IF w \in {1, 2} THEN f1 ELSE SetKey(f1, RT, m1.refresh_token)
        f3 == IF w \in {1, 2, 3} THEN f2 ELSE SetKey(f2, EXP, Str(td.expires_in))
    IN World(m1, e3, f3, W.calls, IF w = 0 THEN "none" ELSE "OSError")

\* Mutant: self.token_expiry is not assigned.
SaveTokens_KeepExpiry(W, td, t, w) ==
    LET m1 == [access_token |-> td.access_token,
               refresh_token |-> td.refresh_token,
               token_expiry |-> W.mem.token_expiry]
        e1 == SetKey(W.environ, AT, m1.access_token)
        e2 == SetKey(e1, RT, m1.refresh_token)
        e3 == SetKey(e2, EXP, Str(t + td.expires_in))
        f1 == IF w = 1 THEN W.envfile ELSE SetKey(W.envfile, AT, m1.access_token)
        f2 == IF w \in {1, 2} THEN f1 ELSE SetKey(f1, RT, m1.refresh_token)
        f3 == IF w \in {1, 2, 3} THEN f2 ELSE SetKey(f2, EXP, Str(t + td.expires_in))
    IN World(m1, e3, f3, W.calls, IF w = 0 THEN "none" ELSE "OSError")

\* _save_tokens(token_data) at time t.  w is the outcome of the three
\* set_key calls: 0 when all succeed, k when the k-th call raises OSError
\* (the file cannot be written) and nothing catches it.
SaveTokens(W, td, t, w) ==
    LET m1 == [access_token |-> td.access_token,
               refresh_token |-> td.refresh_token,
               token_expiry |-> t + td.expires_in]
        e1 == SetKey(W.environ, AT, m1.access_token)
        e2 == SetKey(e1, RT, m1.refresh_token)
        e3 == SetKey(e2, EXP, Str(m1.token_expiry))
        f1 == IF w = 1 THEN W.envfile ELSE SetKey(W.envfile, AT, m1.access_token)
        f2 == IF w \in {1, 2} THEN f1 ELSE SetKey(f1, RT, m1.refresh_token)
        f3 == IF w \in {1, 2, 3} THEN f2 ELSE SetKey(f2, EXP, Str(m1.token_expiry))
    IN World(m1, e3, f3, W.calls, IF w = 0 THEN "none" ELSE "OSError")

\* Mutant: a rejected password grant discards the tokens held.
Authorize_ClearOnReject(W, resp, t, w) ==
    LET W1 == [W EXCEPT !.calls = Append(@, Ev("password", <<>>, resp.ok))]
    IN IF resp.ok THEN SaveTokens(W1, resp.json, t, w)
       ELSE [W1 EXCEPT !.exc = "HTTPError",
                       !.mem = [access_token |-> None, refresh_token |-> None,
                                token_expiry |-> NoExpiry]]

\* Mutant: a rejected password grant is logged and not raised.
Authorize_Swallow(W, resp, t, w) ==
    LET W1 == [W EXCEPT !.calls = Append(@, Ev("password", <<>>, resp.ok))]
    IN IF resp.ok THEN SaveTokens(W1, resp.json, t, w) ELSE W1

\* _authorize(): the password grant answers resp.
Authorize(W, resp, t, w) ==
    LET W1 == [W EXCEPT !.calls = Append(@, Ev("password", <<>>, resp.ok))]
    IN IF resp.ok THEN SaveTokens(W1, resp.json, t, w)
       ELSE [W1 EXCEPT !.exc = "HTTPError"]

\* Mutant: a rejected refresh grant is raised, with no fallback.
RefreshToken_NoFallback(W, r1, r2, t, w) ==
    LET W1 == [W EXCEPT !.calls = Append(@, Ev("refresh", <<>>, r1.ok))]
    IN IF r1.ok THEN SaveTokens(W1, r1.json, t, w)
       ELSE [W1 EXCEPT !.exc = "HTTPError"]

\* _refresh_token(): the refresh grant answers r1, a fallback password
\* grant answers r2.  Only HTTPError is caught.
RefreshToken(W, r1, r2, t, w) ==
    LET W1 == [W EXCEPT !.calls = Append(@, Ev("refresh", <<>>, r1.ok))]
    IN IF r1.ok THEN SaveTokens(W1, r1.json, t, w)
       ELSE Authorize(W1, r2, t, w)

\* Mutant: the comparison with the buffered expiry is turned around.
Stale_Inverted(m, current_time) ==
    \/ ~Truthy(m.access_token)
    \/ m.token_expiry = NoExpiry \/ m.token_expiry = 0
    \/ current_time < m.token_expiry - Buffer

\* The condition of _ensure_valid_token at current_time.
Stale(m, current_time) ==
    \/ ~Truthy(m.access_token)
    \/ m.token_expiry = NoExpiry \/ m.token_expiry = 0
    \/ current_time > m.token_expiry - Buffer

\* _ensure_valid_token() called at current_time; a token call ends at t.
EnsureValidToken(W, current_time, r1, r2, t, w) ==
    IF Stale(W.mem, current_time)
    THEN IF Truthy(W.mem.refresh_token)
         THEN RefreshToken(W, r1, r2, t, w)
         ELSE Authorize(W, r2, t, w)
    ELSE W

----------------------------------------------------------------------------
(* The data endpoints *)

\* Entries of the followed-items payload.  A well-formed entry has "id" and
\* attributes.title, whose "en" key is optional; en = None: no "en" key.
Item(hasId, hasTitle, en) == [hasId |-> hasId, hasTitle |-> hasTitle, en |-> en]

Items == {Item(TRUE, TRUE, "Foo"), Item(TRUE, TRUE, "Bar"), Item(TRUE, TRUE, None),
          Item(FALSE, TRUE, "Foo"), Item(TRUE, FALSE, None)}

SeqsUpTo(S, n) == UNION {[1..k -> S] : k \in 0..n}

FollowedLists == SeqsUpTo(Items, MaxItems)

ChapterIds == {<<"2">>, <<"1", "0">>}
ChapterLists == SeqsUpTo(ChapterIds, MaxChapters) \cup {<< <<"1">>, <<"2">>, <<"1", "0">> >>}

\* Answers of a data endpoint: an error status, or 2xx with the payload.
DataResponses(payloads) == {[ok |-> FALSE, data |-> <<>>]}
                      \cup {[ok |-> TRUE, data |-> p] : p \in payloads}

\* manga["id"]: the id of the entry at position i (ids are opaque; the
\* model names them by position).
MangaId(i) == <<"m", DigitChar(i)>>

UnknownTitle == "Unknown Title"

\* manga["attributes"]["title"].get("en", "Unknown Title")
Title(manga) == IF manga.en = None THEN UnknownTitle ELSE manga.en

ErrorValue == <<"E", "r", "r", "o", "r">>
Zero == <<"0">>

\* max(chapters, default="0"): the first of the largest elements.
RECURSIVE MaxFrom(_, _)
MaxFrom(best, rest) ==
    IF rest = <<>> THEN best
    ELSE MaxFrom(IF StrLess(best, Head(rest)) THEN Head(rest) ELSE best, Tail(rest))

\* Mutant: the largest chapter by numeric value.
MaxDefault_Numeric(chapters) ==
    IF chapters = <<>> THEN Zero
    ELSE CHOOSE c \in {chapters[i] : i \in 1..Len(chapters)} :
            \A i \in 1..Len(chapters) : Float(chapters[i]) <= Float(c)

MaxDefault(chapters) ==
    IF chapters = <<>> THEN Zero ELSE MaxFrom(Head(chapters), Tail(chapters))

\* The result of a request method: the world after it, the value returned
\* (when world.exc = "none"), the bearer token of the data request sent
\* (None when none was sent).
Result(W, value, bearer) == [world |-> W, value |-> value, bearer |-> bearer]

\* Mutant: the GET is sent first and the token is checked after it.
AuthenticatedGet_SendFirst(W, kind, arg, current_time, r1, r2, t, w, resp) ==
    LET S == [W EXCEPT !.calls = Append(@, Ev(kind, arg, resp.ok))]
        E == EnsureValidToken(S, current_time, r1, r2, t, w)
    IN IF E.exc # "none" THEN Result(E, <<>>, None)
       ELSE IF resp.ok THEN Result(E, resp.data, E.mem.access_token)
       ELSE Result([E EXCEPT !.exc = "HTTPError"], <<>>, E.mem.access_token)

\* The body shared by get_followed_manga() and get_read_chapters(manga_id):
\* the token check, then one authenticated GET answered by resp.
AuthenticatedGet(W, kind, arg, current_time, r1, r2, t, w, resp) ==
    LET E == EnsureValidToken(W, current_time, r1, r2, t, w)
        S == [E EXCEPT !.calls = Append(@, Ev(kind, arg, resp.ok))]
    IN IF E.exc # "none" THEN Result(E, <<>>, None)
       ELSE IF resp.ok THEN Result(S, resp.data, E.mem.access_token)
       ELSE Result([S EXCEPT !.exc = "HTTPError"], <<>>, E.mem.access_token)

GetFollowedManga(W, current_time, r1, r2, t, w, resp) ==
    AuthenticatedGet(W, "follows", <<>>, current_time, r1, r2, t, w, resp)

GetReadChapters(W, manga_id, current_time, r1, r2, t, w, resp) ==
    AuthenticatedGet(W, "read", manga_id, current_time, r1, r2, t, w, resp)

\* Mutant: a key already in the dict keeps its value (setdefault).
SetItem_KeepFirst(dict, key, value) ==
    [k \in DOMAIN dict \cup {key} |-> IF k \in DOMAIN dict THEN dict[k] ELSE value]

\* Mutant: the assignment replaces the dict by a one-entry dict.
SetItem_Replace(dict, key, value) == [k \in {key} |-> value]

\* progress[title] = value
SetItem(dict, key, value) ==
    [k \in DOMAIN dict \cup {key} |-> IF k = key THEN value ELSE dict[k]]

EmptyDict == [k \in {} |-> <<>>]

----------------------------------------------------------------------------
(* State machine *)

NoTokens == [access_token |-> None, refresh_token |-> None, token_expiry |-> NoExpiry]

IsTokenCall(e) == e.kind \in {"refresh", "password"}
IsDataCall(e) == e.kind \in {"follows", "read"}
Count(calls, kind) == Cardinality({i \in 1..Len(calls) : calls[i].kind = kind})

\* What the last step did.  op: the method the step ran; pre, t0: the
\* tokens and the time it started with; ensured: _ensure_valid_token() ran;
\* calls: the requests it issued, in order; tokenExc: the exception that
\* left _ensure_valid_token(); after: the tokens when it returned or
\* raised; bearer: the token of the data request sent; tSend: the time
\* _ensure_valid_token() ended; caught: the exception the except clause of
\* the loop handled; exc: the exception that left the method; chapters:
\* the chapter list a read-chapters request returned.
Step(op, pre, t0, ensured, R, tSend, caught, exc, chapters) ==
    [op |-> op, pre |-> pre, t0 |-> t0, ensured |-> ensured,
     calls |-> R.world.calls,
     tokenExc |-> IF \E i \in 1..Len(R.world.calls) : IsDataCall(R.world.calls[i])
                  THEN "none" ELSE R.world.exc,
     after |-> R.world.mem, bearer |-> R.bearer, tSend |-> tSend,
     caught |-> caught, exc |-> exc, chapters |-> chapters]

\* The largest chapter identifier of a list under string ordering, "0" for
\* the empty list.
LexMax(chapters) ==
    IF chapters = <<>> THEN Zero
    ELSE CHOOSE c \in {chapters[i] : i \in 1..Len(chapters)} :
            \A i \in 1..Len(chapters) : ~StrLess(c, chapters[i])

\* What the processing of one item met: a KeyError before the try
\* statement, an exception inside it, or the chapters fetched (recorded by
\* their largest identifier).
Outcome(keyError, caught, chapters) ==
    IF keyError THEN <<"K">>
    ELSE IF caught # "none" THEN ErrorValue
    ELSE LexMax(chapters)

Idle(W) == Result(W, <<>>, None)

NoStep(op) ==
    Step(op, NoTokens, 0, FALSE, Idle(World(NoTokens, <<>>, <<>>, <<>>, "none")),
         0, "none", "none", <<>>)

Returned(op, exc, dict) == [op |-> op, exc |-> exc, dict |-> dict]

Here == World(mem, environ, envfile, <<>>, "none")

\* The time _ensure_valid_token() ends: a token call it made ended at t.
ReturnTime(R, t) ==
    IF \E i \in 1..Len(R.world.calls) : IsTokenCall(R.world.calls[i])
    THEN t ELSE now

Rejected == [ok |-> FALSE, json |-> NoData]
Failed == [ok |-> FALSE, data |-> <<>>]

\* The environment of a run: the answers the token endpoint may give, the
\* outcomes of the file writes, the delays of a token call, the payloads of
\* the two data endpoints.
Environment(responses, writes, delays, lists, chapters) ==
    [responses |-> responses, writes |-> writes, delays |-> delays,
     lists |-> lists, chapters |-> chapters]

\* The answers <<refresh grant, password grant, file writes>> that a token
\* check of tokens m at time t can meet (one placeholder where a call is
\* not made).
TokenInputs(In, m, t) ==
    LET acc == {r \in In.responses : r.ok}
        rej == In.responses \ acc
        auth == {<<Rejected, r2, w>> : r2 \in acc, w \in In.writes}
                \cup {<<Rejected, r2, 0>> : r2 \in rej}
    IN IF ~Stale(m, t) THEN {<<Rejected, Rejected, 0>>}
       ELSE IF ~Truthy(m.refresh_token) THEN auth
       ELSE {<<r1, Rejected, w>> : r1 \in acc, w \in In.writes}
            \cup (IF rej = {} THEN {} ELSE auth)

\* The delays of a token check of tokens m at time t.
TokenDelays(In, m, t) == IF Stale(m, t) THEN In.delays ELSE {0}

\* The answers a data request can meet after the token check ended as W.
DataInputs(W, payloads) ==
    IF W.exc # "none" THEN {Failed} ELSE DataResponses(payloads)

InitEnvirons ==
    {[k \in keys |-> IF k = EXP THEN e ELSE IF k = AT THEN a ELSE r] :
        keys \in SUBSET {AT, RT, EXP},
        a \in {"a0"}, r \in {"", "r0"},
        e \in {Str(0), Str(60), Str(90)}}

\* SyncManager.sync() (sync.py lines 16-28) around the result r of
\* get_reading_progress(): the except clause catches every Exception and
\* prints it; sync() returns normally.
Sync_Propagate(r) == [exc |-> r.exc, printed |-> "none"]
Sync(r) == [exc |-> "none", printed |-> r.exc]

Running == [status |-> "running", exc |-> "none", printed |-> "none"]

\* main() (sync.py lines 31-38) when the client stands at pc1 and its last
\* call gave r: MangaDexClient() is called outside any try statement, so
\* what __init__ raises leaves main(); sync() is the last statement.
Main(pc1, r) ==
    IF pc1 = "dead"
    THEN [status |-> "raised", exc |-> r.exc, printed |-> "none"]
    ELSE IF pc1 = "ready" /\ r.op = "get_reading_progress"
    THEN LET s == Sync(r)
         IN [status |-> IF s.exc = "none" THEN "returned" ELSE "raised",
             exc |-> s.exc, printed |-> s.printed]
    ELSE Running

\* The data requests among the calls of a step.
DataCalls(calls) == SelectSeq(calls, IsDataCall)

InitWith(envs) ==
    /\ environ \in envs
    /\ envfile = environ
    /\ mem = NoTokens
    /\ now = 0
    /\ pc = "new"
    /\ followed = <<>>
    /\ idx = 0
    /\ progress = EmptyDict
    /\ ret = Returned("none", "none", EmptyDict)
    /\ outcomes = <<>>
    /\ last = NoStep("init")
    /\ requests = <<>>
    /\ exit = Running

\* The tokens __init__ loads from the environment (lines 32-38).
LoadTokens(env) ==
    [access_token |-> Getenv(env, AT),
     refresh_token |-> Getenv(env, RT),
     token_expiry |-> IF EXP \in DOMAIN env /\ env[EXP] # <<>>
                      THEN Float(env[EXP]) ELSE NoExpiry]

Commit(W) ==
    /\ mem' = W.mem
    /\ environ' = W.environ
    /\ envfile' = W.envfile

\* MangaDexClient(): __init__ loads the tokens and checks them.
Construct(In) ==
    /\ pc = "new"
    /\ LET m0 == LoadTokens(environ)
       IN \E in \in TokenInputs(In, m0, now), d \in TokenDelays(In, m0, now) :
            \E W \in {EnsureValidToken(World(m0, environ, envfile, <<>>, "none"),
                                       now, in[1], in[2], now + d, in[3])} :
            LET R == Idle(W)
            IN /\ now + d <= MaxNow
               /\ Commit(W)
               /\ now' = ReturnTime(R, now + d)
               /\ pc' = IF W.exc = "none" THEN "ready" ELSE "dead"
               /\ ret' = Returned("__init__", W.exc, EmptyDict)
               /\ last' = Step("__init__", m0, now, TRUE, R, now', "none", W.exc, <<>>)
               /\ exit' = Main(pc', ret')
    /\ UNCHANGED <<followed, idx, progress, outcomes, requests>>

\* A caller's get_followed_manga().
CallGetFollowedManga(In) ==
    /\ pc = "ready"
    /\ \E in \in TokenInputs(In, mem, now), d \in TokenDelays(In, mem, now) :
         \E E \in {EnsureValidToken(Here, now, in[1], in[2], now + d, in[3])} :
         \E resp \in DataInputs(E, In.lists) :
         \E R \in {GetFollowedManga(Here, now, in[1], in[2], now + d, in[3], resp)} :
                 /\ now + d <= MaxNow
                 /\ Commit(R.world)
                 /\ now' = ReturnTime(R, now + d)
                 /\ ret' = Returned("get_followed_manga", R.world.exc, EmptyDict)
                 /\ last' = Step("get_followed_manga", mem, now, TRUE, R, now',
                                 "none", R.world.exc, <<>>)
                 /\ requests' = DataCalls(R.world.calls)
    /\ UNCHANGED <<pc, followed, idx, progress, outcomes, exit>>

\* A caller's get_read_chapters(manga_id).
CallGetReadChapters(In) ==
    /\ pc = "ready"
    /\ \E in \in TokenInputs(In, mem, now), d \in TokenDelays(In, mem, now) :
         \E E \in {EnsureValidToken(Here, now, in[1], in[2], now + d, in[3])} :
         \E resp \in DataInputs(E, In.chapters) :
         \E R \in {GetReadChapters(Here, MangaId(1), now, in[1], in[2],
                                   now + d, in[3], resp)} :
                 /\ now + d <= MaxNow
                 /\ Commit(R.world)
                 /\ now' = ReturnTime(R, now + d)
                 /\ ret' = Returned("get_read_chapters", R.world.exc, EmptyDict)
                 /\ last' = Step("get_read_chapters", mem, now, TRUE, R, now',
                                 "none", R.world.exc, R.value)
                 /\ requests' = DataCalls(R.world.calls)
    /\ UNCHANGED <<pc, followed, idx, progress, outcomes, exit>>

\* get_reading_progress() up to the for loop (lines 178-180); an empty
\* followed list returns the empty dict at once (lines 196-197).
StartReadingProgress(In) ==
    /\ pc = "ready"
    /\ \E in \in TokenInputs(In, mem, now), d \in TokenDelays(In, mem, now) :
         \E E \in {EnsureValidToken(Here, now, in[1], in[2], now + d, in[3])} :
         \E resp \in DataInputs(E, In.lists) :
         \E R \in {GetFollowedManga(Here, now, in[1], in[2], now + d, in[3], resp)} :
              LET raised == R.world.exc # "none"
                  done == raised \/ R.value = <<>>
              IN /\ now + d <= MaxNow
                 /\ Commit(R.world)
                 /\ now' = ReturnTime(R, now + d)
                 /\ pc' = IF done THEN "ready" ELSE "loop"
                 /\ followed' = IF raised THEN <<>> ELSE R.value
                 /\ idx' = IF done THEN 0 ELSE 1
                 /\ progress' = EmptyDict
                 /\ outcomes' = <<>>
                 /\ ret' = IF done
                           THEN Returned("get_reading_progress", R.world.exc, EmptyDict)
                           ELSE Returned("none", "none", EmptyDict)
                 /\ last' = Step("get_reading_progress", mem, now, TRUE, R, now',
                                 "none", R.world.exc, <<>>)
                 /\ requests' = DataCalls(R.world.calls)
                 /\ exit' = Main(pc', ret')

\* One iteration of the for loop of get_reading_progress() (lines 182-194),
\* and after the last one the return (lines 196-197).  A KeyError of lines
\* 183-184 is raised outside the try statement.
ProcessItem(In) ==
    /\ pc = "loop"
    /\ LET manga == followed[idx]
           keyError == ~manga.hasId \/ ~manga.hasTitle
           title == Title(manga)
           final == keyError \/ idx = Len(followed)
       IN \E in \in IF keyError THEN {<<Rejected, Rejected, 0>>}
                    ELSE TokenInputs(In, mem, now),
             d \in IF keyError THEN {0} ELSE TokenDelays(In, mem, now) :
            \E E \in {EnsureValidToken(Here, now, in[1], in[2], now + d, in[3])} :
            \E resp \in IF keyError THEN {Failed} ELSE DataInputs(E, In.chapters) :
            \E R \in {IF keyError THEN Idle(Here)
                       ELSE GetReadChapters(Here, MangaId(idx), now, in[1], in[2],
                                            now + d, in[3], resp)} :
                 LET caught == R.world.exc
                     value == IF caught = "none" THEN MaxDefault(R.value)
                              ELSE ErrorValue
                     dict == SetItem(progress, title, value)
                 IN /\ now + d <= MaxNow
                    /\ Commit(R.world)
                    /\ now' = ReturnTime(R, now + d)
                    /\ pc' = IF final THEN "ready" ELSE "loop"
                    /\ idx' = IF final THEN 0 ELSE idx + 1
                    /\ progress' = IF keyError THEN EmptyDict ELSE dict
                    /\ outcomes' = Append(outcomes, Outcome(keyError, caught, R.value))
                    /\ ret' = IF keyError
                              THEN Returned("get_reading_progress", "KeyError", EmptyDict)
                              ELSE IF final
                              THEN Returned("get_reading_progress", "none", dict)
                              ELSE ret
                    /\ last' = Step("item", mem, now, ~keyError, R, now',
                                    IF keyError THEN "none" ELSE caught,
                                    IF keyError THEN "KeyError" ELSE "none",
                                    IF keyError \/ caught # "none" THEN <<>> ELSE R.value)
                    /\ requests' = requests \o DataCalls(R.world.calls)
                    /\ exit' = Main(pc', ret')
    /\ UNCHANGED followed

\* Time passes between two calls of the client.
Tick(In) ==
    /\ pc \in {"new", "ready"}
    /\ \E d \in In.delays \ {0} :
         /\ now + d <= MaxNow
         /\ now' = now + d
    /\ last' = NoStep("tick")
    /\ UNCHANGED <<mem, environ, envfile, pc, followed, idx, progress, ret, outcomes,
                   requests, exit>>

NextIn(In) ==
    \/ Construct(In)
    \/ CallGetFollowedManga(In)
    \/ CallGetReadChapters(In)
    \/ StartReadingProgress(In)
    \/ ProcessItem(In)
    \/ Tick(In)

\* The token lifecycle in full, over short well-formed followed lists.
TokenEnvironment ==
    Environment(Responses, {0, 2}, Delays,
                SeqsUpTo({Item(TRUE, TRUE, "Foo")}, MaxItems), {<< <<"2">> >>})

Init == InitWith(InitEnvirons)
Next == NextIn(TokenEnvironment)
Spec == Init /\ [][Next]_vars

\* The aggregation in full (every followed list and chapter list), as main()
\* runs it: one client, one get_reading_progress().  The token endpoint
\* grants long-lived tokens or rejects.
ProgressEnvironment ==
    Environment({r \in Responses : ~r.ok \/ r.json.expires_in = 90},
                {0}, {0}, FollowedLists, ChapterLists)

ProgressEnvirons ==
    {<<>>, [k \in {AT, RT, EXP} |->
               IF k = EXP THEN Str(30) ELSE IF k = AT THEN "a0" ELSE "r0"]}

\* sync() of main(): get_reading_progress() on the client just constructed.
SyncOnce == last.op = "__init__" /\ StartReadingProgress(ProgressEnvironment)

ProgressInit == InitWith(ProgressEnvirons)
ProgressNext ==
    \/ Construct(ProgressEnvironment)
    \/ SyncOnce
    \/ ProcessItem(ProgressEnvironment)
SpecProgress == ProgressInit /\ [][ProgressNext]_vars

----------------------------------------------------------------------------
(* Properties of the token lifecycle *)

Calls == last.calls
CallIdx == 1..Len(Calls)

\* The token state Valid of tokens m at time t.
Valid(m, t) ==
    /\ Truthy(m.access_token)
    /\ m.token_expiry # NoExpiry
    /\ t < m.token_expiry - Buffer

\* The step ran a method that sends a data request after its token check.
DataStep == last.op \in {"get_followed_manga", "get_read_chapters",
                         "get_reading_progress", "item"} /\ last.ensured

\* C1: a token check that finds an access token with now < expires_at - 60
\* issues no refresh and no password grant, writes nothing to os.environ or
\* the .env file, and leaves the three token fields as they were.
C1_ValidTokenIsReused ==
    [][(last'.ensured /\ Valid(last'.pre, last'.t0))
          => /\ \A i \in 1..Len(last'.calls) : ~IsTokenCall(last'.calls[i])
             /\ mem' = last'.pre
             /\ last'.after = last'.pre
             /\ last'.tokenExc = "none"
             /\ environ' = environ
             /\ envfile' = envfile]_vars

C1_Witness ==
    /\ last.ensured /\ Valid(last.pre, last.t0)
    /\ last.op = "get_read_chapters"
    /\ \E i \in CallIdx : Calls[i].kind = "read"

\* C2: with a refresh token present and the access token absent or within
\* 60 seconds of its expiry (expires_at - now = 60 included), a data-request
\* method issues a refresh grant before its data request.
C2_RefreshBeforeData ==
    (/\ DataStep
     /\ Truthy(last.pre.refresh_token)
     /\ \/ ~Truthy(last.pre.access_token)
        \/ last.pre.token_expiry # NoExpiry
           /\ last.pre.token_expiry - last.t0 <= Buffer)
    => /\ Calls # <<>>
       /\ Calls[1].kind = "refresh"

\* C3: every data request is sent with a token that is Valid when the token
\* check returns.
C3_DataRequestsCarryValidToken ==
    \A i \in CallIdx : IsDataCall(Calls[i]) =>
        /\ last.bearer = last.after.access_token
        /\ Valid(last.after, last.tSend)

\* C4: a rejected refresh grant is followed by exactly one password grant
\* in the same token check; a rejected password grant leaves the token check
\* as HTTPError and nothing is requested after it; no token check makes
\* more than one refresh grant or more than one password grant.
C4_OneFallbackAuthorization ==
    last.ensured =>
        /\ Count(Calls, "refresh") <= 1
        /\ Count(Calls, "password") <= 1
        /\ \A i \in CallIdx : (Calls[i].kind = "refresh" /\ ~Calls[i].ok)
              => /\ i < Len(Calls)
                 /\ Calls[i + 1].kind = "password"
                 /\ Count(Calls, "password") = 1
        /\ \A i \in CallIdx : (Calls[i].kind = "refresh" /\ Calls[i].ok)
              => Count(Calls, "password") = 0
        /\ \A i \in CallIdx : (Calls[i].kind = "password" /\ ~Calls[i].ok)
              => /\ i = Len(Calls)
                 /\ last.tokenExc = "HTTPError"

C4_Witness ==
    /\ last.ensured
    /\ Len(Calls) = 2
    /\ Calls[1].kind = "refresh" /\ ~Calls[1].ok
    /\ Calls[2].kind = "password" /\ ~Calls[2].ok
    /\ last.tokenExc = "HTTPError"

\* The dict and the title that the last iteration of the loop wrote.
LastDict == IF pc = "loop" THEN progress ELSE ret.dict
LastTitle == Title(followed[Len(outcomes)])

ReadingProgress == "get_reading_progress"

\* C5 (as claimed): a rejected password grant is fatal for the operation
\* that needed the token: the operation raises it to its caller.
C5_AuthFailureIsFatal ==
    \A i \in CallIdx : (Calls[i].kind = "password" /\ ~Calls[i].ok)
        => last.exc = "HTTPError"

\* C5 (amended): a rejected password grant ends the token check and the
\* request method that made it (nothing is requested after it).  __init__,
\* get_followed_manga(), get_read_chapters() and the followed-list fetch of
\* get_reading_progress() raise it to their caller; inside the loop of
\* get_reading_progress() it is caught: "Error" is recorded for the title
\* and the run goes on to the next item or returns its dict.
C5_AuthFailureEndsRequestMethod ==
    \A i \in CallIdx : (Calls[i].kind = "password" /\ ~Calls[i].ok)
        => /\ i = Len(Calls)
           /\ last.tokenExc = "HTTPError"
           /\ last.bearer = None
           /\ IF last.op = "item"
              THEN /\ last.caught = "HTTPError"
                   /\ last.exc = "none"
                   /\ LastDict[LastTitle] = ErrorValue
                   /\ \/ pc = "loop" /\ idx = Len(outcomes) + 1
                      \/ pc = "ready" /\ ret = Returned(ReadingProgress, "none", LastDict)
              ELSE /\ last.exc = "HTTPError"
                   /\ ret.op = last.op
                   /\ ret.exc = "HTTPError"
                   /\ pc = IF last.op = "__init__" THEN "dead" ELSE "ready"

C5_Witness ==
    /\ last.op = "item"
    /\ \E i \in CallIdx : Calls[i].kind = "password" /\ ~Calls[i].ok
    /\ pc = "loop"
    /\ progress[LastTitle] = ErrorValue

\* C6: after a token check that obtained tokens, the store holds the new
\* tokens with expires_at = now + ttl, and in every state a caller of the
\* client observes the tokens in memory are the tokens in the store.
C6_MemoryEqualsStore ==
    pc \in {"ready", "loop"} =>
        /\ mem = LoadTokens(envfile)
        /\ mem = LoadTokens(environ)
        /\ (\E i \in CallIdx : IsTokenCall(Calls[i]) /\ Calls[i].ok)
              => \E ttl \in TTLs : mem.token_expiry = last.tSend + ttl

\* C7: a failed write of the settings file does not fail the token check.
C7_WriteFailureIsNotRaised ==
    last.tokenExc # "OSError" /\ last.exc # "OSError" /\ last.caught # "OSError"

----------------------------------------------------------------------------
(* Properties of the aggregation *)

\* get_reading_progress() has returned its dict for the list followed.
ProgressReturned ==
    /\ pc = "ready"
    /\ ret.op = ReadingProgress
    /\ ret.exc = "none"
    /\ Len(outcomes) = Len(followed)

DistinctTitles ==
    \A i, j \in 1..Len(followed) : Title(followed[i]) = Title(followed[j]) => i = j

EntryPerItem ==
    /\ Cardinality(DOMAIN ret.dict) = Len(followed)
    /\ \A k \in 1..Len(followed) :
          /\ Title(followed[k]) \in DOMAIN ret.dict
          /\ ret.dict[Title(followed[k])] = outcomes[k]

\* C8 (as claimed): the dict returned for N followed items has N entries,
\* "Error" for each item whose fetch raised and the latest chapter for each
\* other item, whatever the titles of the list.
C8_EntryPerItem == ProgressReturned => EntryPerItem

\* C8 (amended): the same, for the followed lists whose display titles
\* (the placeholder included) are pairwise distinct.
C8_EntryPerItemOfDistinctTitles ==
    (ProgressReturned /\ DistinctTitles) => EntryPerItem

C8_Witness ==
    /\ ProgressReturned
    /\ Len(followed) = 2
    /\ Title(followed[1]) = "Foo" /\ Title(followed[2]) = "Bar"
    /\ last.caught = "HTTPError"
    /\ ret.dict = [t \in {"Foo", "Bar"} |-> IF t = "Foo" THEN <<"2">> ELSE ErrorValue]

\* C9: an exception at any step of the processing of an item is recorded as
\* "Error" and does not leave the loop.
C9_ItemFailuresAreIsolated ==
    last.op = "item" =>
        /\ last.exc = "none"
        /\ outcomes[Len(outcomes)] \in {ErrorValue, LexMax(last.chapters)}

\* C10: the value recorded for an item whose chapter fetch succeeds is the
\* largest chapter identifier under string ordering, "0" for an empty
\* list; chapters "1", "2", "10" give "2".
C10_LatestIsStringMax ==
    (last.op = "item" /\ last.ensured /\ last.caught = "none") =>
        /\ LastDict[LastTitle] = LexMax(last.chapters)
        /\ last.chapters = <<>> => LastDict[LastTitle] = <<"0">>
        /\ last.chapters = << <<"1">>, <<"2">>, <<"1", "0">> >>
              => LastDict[LastTitle] = <<"2">>

C10_Witness ==
    /\ last.op = "item" /\ last.ensured /\ last.caught = "none"
    /\ last.chapters = << <<"1">>, <<"2">>, <<"1", "0">> >>
    /\ LastDict[LastTitle] = <<"2">>


----------------------------------------------------------------------------
(* Properties of main() and SyncManager.sync() *)

\* C11 (as claimed): main() never ends with an uncaught exception, whatever
\* the token endpoint and the data endpoints answer, a rejected
\* authorization included.
C11_MainExitsCleanly == exit.status # "raised"

\* C12: when get_reading_progress() raises (the followed-list request
\* failed, or the token check before it did), sync() catches the
\* exception, prints it and returns normally.
C12_SyncCatchesFetchFailure ==
    (ret.op = ReadingProgress /\ ret.exc # "none")
        => /\ exit.status = "returned"
           /\ exit.exc = "none"
           /\ exit.printed = ret.exc

C12_Witness ==
    /\ ret.op = ReadingProgress /\ ret.exc = "HTTPError"
    /\ last.op = ReadingProgress
    /\ \E i \in CallIdx : Calls[i].kind = "follows" /\ ~Calls[i].ok
    /\ exit.status = "returned"

----------------------------------------------------------------------------
(* Properties of the persisted tokens *)

\* The step obtained tokens: a grant was answered 2xx and _save_tokens()
\* returned.
Granted ==
    /\ last.tokenExc = "none"
    /\ \E i \in CallIdx : IsTokenCall(Calls[i]) /\ Calls[i].ok

\* What the token check of a new client does at time t, its fields loaded
\* from the settings store.
Reload(store, t) ==
    EnsureValidToken(World(LoadTokens(store), store, store, <<>>, "none"),
                     t, Rejected, Rejected, t, 0)

\* The settings a reloaded client can read: the process environment and the
\* .env file.
Stores == {environ, envfile}

\* C13 (as claimed): after a successful authorization, a client constructed
\* from the persisted fields at any time not past expires_at is Valid and
\* its token check issues no token-endpoint call, whatever the lifetime the
\* server reported.
C13_ReloadIsValidUntilExpiry ==
    Granted => \A store \in Stores : \A t \in now..mem.token_expiry :
                  /\ Valid(LoadTokens(store), t)
                  /\ Reload(store, t).calls = <<>>

\* C13 (amended): after a successful authorization, a client constructed
\* from the persisted fields at a time before expires_at - 60 has the
\* fields that were saved, is Valid, and its token check issues no
\* token-endpoint call.
C13_ReloadIsValidBeforeBuffer ==
    Granted => \A store \in Stores :
                  /\ LoadTokens(store) = mem
                  /\ \A t \in now..mem.token_expiry :
                        t < mem.token_expiry - Buffer
                            => /\ Valid(LoadTokens(store), t)
                               /\ Reload(store, t).calls = <<>>
                               /\ Reload(store, t).mem = mem

C13_Witness ==
    /\ Granted
    /\ now >= 30
    /\ now < mem.token_expiry - Buffer
    /\ Valid(LoadTokens(envfile), now)
    /\ Reload(envfile, now).calls = <<>>

\* C14: once __init__ has returned, in every state between and inside public
\* operations, a present access token comes with a present expiry, whatever
\* the persisted fields were at startup (an access token persisted without
\* an expiry included).
C14_AccessTokenHasExpiry ==
    pc \in {"ready", "loop"}
        => (Truthy(mem.access_token) => mem.token_expiry \notin {NoExpiry, 0})

C14_Witness ==
    /\ pc = "ready"
    /\ last.op = "__init__"
    /\ Truthy(last.pre.access_token)
    /\ last.pre.token_expiry = NoExpiry
    /\ Truthy(mem.access_token)
    /\ mem.token_expiry # NoExpiry

\* C15 (as claimed): a token check that starts with no refresh token and no
\* valid access token (absent, or now >= expires_at - 60) issues exactly one
\* password grant and no refresh grant; when the grant succeeds the fields
\* become the server's tokens, when it is rejected the check raises.
C15_NoRefreshTokenMeansPasswordGrant ==
    (last.ensured /\ ~Truthy(last.pre.refresh_token) /\ ~Valid(last.pre, last.t0))
        => /\ Count(Calls, "password") = 1
           /\ Count(Calls, "refresh") = 0
           /\ \A i \in CallIdx : Calls[i].kind = "password" =>
                 IF Calls[i].ok
                 THEN \E td \in TokenData :
                        /\ last.after.access_token = td.access_token
                        /\ last.after.refresh_token = td.refresh_token
                        /\ last.after.token_expiry = last.tSend + td.expires_in
                 ELSE last.tokenExc = "HTTPError" /\ last.after = last.pre

----------------------------------------------------------------------------
(* Properties of one get_reading_progress() run *)

\* A get_reading_progress() run is under way or was the last call to end.
InRun == pc = "loop" \/ ret.op = ReadingProgress

\* C16: one get_reading_progress() run issues its data requests one after
\* the other: first one followed-items request, then per item of the
\* returned list, in list order, at most one read-chapters request for that
\* item's id, sent in the step that processes the item.  Every data request
\* is the last request of its step and follows a token check of the same
\* step that returned normally.
C16_RequestsInOrder ==
    /\ last.op \in {ReadingProgress, "item"} =>
          /\ Len(DataCalls(Calls)) <= 1
          /\ Len(requests) >= Len(DataCalls(Calls))
          /\ SubSeq(requests, Len(requests) - Len(DataCalls(Calls)) + 1, Len(requests))
                = DataCalls(Calls)
          /\ \A i \in CallIdx : IsDataCall(Calls[i]) =>
                /\ i = Len(Calls)
                /\ last.ensured /\ last.tokenExc = "none"
                /\ Calls[i].kind = IF last.op = "item" THEN "read" ELSE "follows"
                /\ last.op = "item" => Calls[i].arg = MangaId(Len(outcomes))
    /\ InRun =>
          /\ Len(requests) <= 1 + Len(outcomes)
          /\ requests # <<>> => requests[1].kind = "follows"
          /\ pc = "loop" => requests # <<>> /\ requests[1].ok
          /\ \A i \in 2..Len(requests) :
                /\ requests[i].kind = "read"
                /\ \E k \in 1..Len(outcomes) : requests[i].arg = MangaId(k)
          /\ \A i, j \in 2..Len(requests) : \A a, b \in 1..Len(outcomes) :
                (i < j /\ requests[i].arg = MangaId(a) /\ requests[j].arg = MangaId(b))
                    => a < b

C16_Witness ==
    /\ ret.op = ReadingProgress /\ ret.exc = "none"
    /\ last.op = "item"
    /\ Len(requests) = 3
    /\ requests[2].arg = MangaId(1)
    /\ requests[3].arg = MangaId(2)
    /\ Len(Calls) = 2 /\ IsTokenCall(Calls[1]) /\ Calls[2] = requests[3]

----------------------------------------------------------------------------
(* Frame of a failed token operation *)

----------------------------------------------------------------------------
(* The keys of the progress map *)

\* The display titles of the followed items.
FollowedTitles == {Title(followed[k]) : k \in 1..Len(followed)}

\* The position of the last followed item with display title t.
LastWithTitle(t) ==
    CHOOSE k \in 1..Len(followed) :
        /\ Title(followed[k]) = t
        /\ \A j \in 1..Len(followed) : Title(followed[j]) = t => j <= k

\* C18: the map get_reading_progress() returns is keyed by display title:
\* its keys are the distinct display titles of the followed items (the items
\* without an English title share "Unknown Title"), so its size is their
\* number, and the value of a title is the outcome (latest chapter or
\* "Error") of the last item of the followed list with that title.
C18_MapKeyedByTitle ==
    ProgressReturned =>
        /\ DOMAIN ret.dict = FollowedTitles
        /\ Cardinality(DOMAIN ret.dict) = Cardinality(FollowedTitles)
        /\ \A t \in FollowedTitles : ret.dict[t] = outcomes[LastWithTitle(t)]

C18_Witness ==
    /\ ProgressReturned
    /\ Len(followed) = 2
    /\ followed[1].en = None /\ followed[2].en = None
    /\ outcomes = <<ErrorValue, <<"2">> >>
    /\ DOMAIN ret.dict = {UnknownTitle}
    /\ ret.dict[UnknownTitle] = <<"2">>
====
